---------------------------- MODULE Spec2Model ----------------------------
(***************************************************************************)
(* Model of the Agenda service (src/main.py): a FastAPI application with   *)
(* three authorised endpoints (/events, /add_event, /chat).  /chat runs a  *)
(* bounded tool-invocation loop against a language-model provider and a    *)
(* Google Calendar gateway.                                                *)
(*                                                                         *)
(* Python values are modelled as tagged records (PyNone, PyStr, PyInt,     *)
(* PyList, PyDict).  A serialized history is a sequence of JSON tokens and *)
(* json.loads is a recursive-descent parser over that sequence.            *)
(***************************************************************************)
EXTENDS Integers, Sequences, FiniteSets, TLC

(***************************************************************************)
(* Bounds of the model.                                                    *)
(***************************************************************************)
\* longest serialized history (number of entries) that is enumerated
MaxTurns == 3

(***************************************************************************)
(* Python values.                                                          *)
(***************************************************************************)
PyNone == [t |-> "None"]
PyStr(s) == [t |-> "str", s |-> s]
PyInt(n) == [t |-> "int", n |-> n]
PyList(items) == [t |-> "list", items |-> items]
\* a dict is the sequence of its (key, value) pairs in insertion order;
\* keys are strings, a key inserted twice keeps its last value
PyDict(pairs) == [t |-> "dict", pairs |-> pairs]

DictHas(d, k) == \E i \in 1..Len(d.pairs) : d.pairs[i][1] = k
DictGet(d, k) ==
    LET last == CHOOSE i \in 1..Len(d.pairs) :
                    /\ d.pairs[i][1] = k
                    /\ \A j \in (i+1)..Len(d.pairs) : d.pairs[j][1] # k
    IN d.pairs[last][2]
\* the keys of a dict in first-insertion order, without repetition
RECURSIVE DictKeysFrom(_, _)
DictKeysFrom(d, i) ==
    IF i > Len(d.pairs) THEN << >>
    ELSE IF \E j \in 1..(i-1) : d.pairs[j][1] = d.pairs[i][1]
         THEN DictKeysFrom(d, i + 1)
         ELSE <<d.pairs[i][1]>> \o DictKeysFrom(d, i + 1)
DictKeys(d) == DictKeysFrom(d, 1)

(***************************************************************************)
(* Strings that occur in the model, with the two string operations the     *)
(* history loop applies to them: iteration (characters) and substring      *)
(* test (the Python operator "in" between two strings).                    *)
(***************************************************************************)
StrChars(s) ==
    CASE s = "hi" -> <<"h", "i">>
      [] s = "role" -> <<"r", "o", "l", "e">>
      [] s = "text" -> <<"t", "e", "x", "t">>
      [] s = "user" -> <<"u", "s", "e", "r">>
      [] s = "model" -> <<"m", "o", "d", "e", "l">>
      [] s = "roletext" -> <<"r", "o", "l", "e", "t", "e", "x", "t">>
      [] OTHER -> <<s>>
\* sub in s, for sub \in {"role", "text"}
StrContains(s, sub) == s = sub \/ s = "roletext"

(***************************************************************************)
(* JSON text: a sequence of tokens.                                        *)
(***************************************************************************)
QuoteOf(s) ==
    CASE s = "hi" -> "\"hi\""
      [] s = "role" -> "\"role\""
      [] s = "text" -> "\"text\""
      [] s = "user" -> "\"user\""
      [] s = "model" -> "\"model\""
      [] s = "roletext" -> "\"roletext\""
StrLiterals == {"\"hi\"", "\"role\"", "\"text\"", "\"user\"", "\"model\"", "\"roletext\""}
UnquoteOf(tok) ==
    CASE tok = "\"hi\"" -> "hi"
      [] tok = "\"role\"" -> "role"
      [] tok = "\"text\"" -> "text"
      [] tok = "\"user\"" -> "user"
      [] tok = "\"model\"" -> "model"
      [] tok = "\"roletext\"" -> "roletext"

ParseFail == [ok |-> FALSE]
ParseOk(v, n) == [ok |-> TRUE, val |-> v, next |-> n]

RECURSIVE SkipWs(_, _)
SkipWs(toks, i) ==
    IF i <= Len(toks) /\ toks[i] = " " THEN SkipWs(toks, i + 1) ELSE i

RECURSIVE ParseValue(_, _)
RECURSIVE ParseItems(_, _, _)
RECURSIVE ParseMembers(_, _, _)

ParseValue(toks, i) ==
    LET j == SkipWs(toks, i) IN
    IF j > Len(toks) THEN ParseFail
    ELSE LET tk == toks[j] IN
         CASE tk = "null" -> ParseOk(PyNone, j + 1)
           [] tk = "5" -> ParseOk(PyInt(5), j + 1)
           [] tk \in StrLiterals -> ParseOk(PyStr(UnquoteOf(tk)), j + 1)
           [] tk = "[" ->
                LET k == SkipWs(toks, j + 1) IN
                IF k <= Len(toks) /\ toks[k] = "]"
                THEN ParseOk(PyList(<< >>), k + 1)
                ELSE ParseItems(toks, k, << >>)
           [] tk = "{" ->
                LET k == SkipWs(toks, j + 1) IN
                IF k <= Len(toks) /\ toks[k] = "}"
                THEN ParseOk(PyDict(<< >>), k + 1)
                ELSE ParseMembers(toks, k, << >>)
           [] OTHER -> ParseFail

\* value ("," value)* "]"
ParseItems(toks, i, acc) ==
    LET v == ParseValue(toks, i) IN
    IF ~v.ok THEN ParseFail
    ELSE LET k == SkipWs(toks, v.next) IN
         IF k > Len(toks) THEN ParseFail
         ELSE IF toks[k] = "," THEN ParseItems(toks, k + 1, Append(acc, v.val))
         ELSE IF toks[k] = "]" THEN ParseOk(PyList(Append(acc, v.val)), k + 1)
         ELSE ParseFail

\* string ":" value ("," string ":" value)* "}"
ParseMembers(toks, i, acc) ==
    LET j == SkipWs(toks, i) IN
    IF j > Len(toks) \/ toks[j] \notin StrLiterals THEN ParseFail
    ELSE LET c == SkipWs(toks, j + 1) IN
         IF c > Len(toks) \/ toks[c] # ":" THEN ParseFail
         ELSE LET v == ParseValue(toks, c + 1) IN
              IF ~v.ok THEN ParseFail
              ELSE LET k == SkipWs(toks, v.next)
                       acc2 == Append(acc, <<UnquoteOf(toks[j]), v.val>>)
                   IN IF k > Len(toks) THEN ParseFail
                      ELSE IF toks[k] = "," THEN ParseMembers(toks, k + 1, acc2)
                      ELSE IF toks[k] = "}" THEN ParseOk(PyDict(acc2), k + 1)
                      ELSE ParseFail

\* json.loads: the parsed value, or JSONDecodeError (ok = FALSE) when the
\* text is no JSON value or is followed by anything but white space
json_loads(toks) ==
    LET v == ParseValue(toks, 1) IN
    IF ~v.ok THEN [ok |-> FALSE]
    ELSE IF SkipWs(toks, v.next) <= Len(toks) THEN [ok |-> FALSE]
    ELSE [ok |-> TRUE, val |-> v.val]

\* the serialization a client applies to a history value (compact form)
RECURSIVE json_dumps(_)
RECURSIVE DumpItems(_, _)
RECURSIVE DumpMembers(_, _)
json_dumps(v) ==
    CASE v.t = "None" -> <<"null">>
      [] v.t = "int" -> <<"5">>
      [] v.t = "str" -> <<QuoteOf(v.s)>>
      [] v.t = "list" -> <<"[">> \o DumpItems(v.items, 1) \o <<"]">>
      [] v.t = "dict" -> <<"{">> \o DumpMembers(v.pairs, 1) \o <<"}">>
DumpItems(items, i) ==
    IF i > Len(items) THEN << >>
    ELSE json_dumps(items[i])
         \o (IF i < Len(items) THEN <<",">> ELSE << >>)
         \o DumpItems(items, i + 1)
DumpMembers(pairs, i) ==
    IF i > Len(pairs) THEN << >>
    ELSE <<QuoteOf(pairs[i][1]), ":">> \o json_dumps(pairs[i][2])
         \o (IF i < Len(pairs) THEN <<",">> ELSE << >>)
         \o DumpMembers(pairs, i + 1)

(***************************************************************************)
(* Conversation History Normalizer: main.py:286-309.                       *)
(***************************************************************************)
\* Content(role=..., parts=[Part(text=...)])
Content(role, text) == [role |-> role, parts |-> <<[text |-> text]>>]

\* "for turn in history_data" (main.py:291): what the loop visits.
\* A list yields its items, a dict its keys, a str its characters; any other
\* value is not iterable (TypeError).
Iterable(v) == v.t \in {"list", "dict", "str"}
IterItems(v) ==
    CASE v.t = "list" -> v.items
      [] v.t = "dict" -> [i \in 1..Len(DictKeys(v)) |-> PyStr(DictKeys(v)[i])]
      [] v.t = "str" -> [i \in 1..Len(StrChars(v.s)) |-> PyStr(StrChars(v.s)[i])]

\* "key in turn" (main.py:292): key membership for a dict, element
\* membership for a list, substring test for a str, TypeError otherwise
SupportsIn(turn) == turn.t \in {"dict", "list", "str"}
Contains(turn, key) ==
    CASE turn.t = "dict" -> DictHas(turn, key)
      [] turn.t = "list" ->
            \E i \in 1..Len(turn.items) :
                turn.items[i].t = "str" /\ turn.items[i].s = key
      [] turn.t = "str" -> StrContains(turn.s, key)

\* the test that decides whether an entry of the history is kept
turn_is_kept(turn) == Contains(turn, "role") /\ Contains(turn, "text")

\* the body of the loop, main.py:291-299; raised = an exception other than
\* JSONDecodeError left the try block
RECURSIVE history_loop(_, _, _)
history_loop(items, i, acc) ==
    IF i > Len(items) THEN [raised |-> FALSE, parts |-> acc]
    ELSE LET turn == items[i] IN
         IF ~SupportsIn(turn) THEN [raised |-> TRUE, parts |-> acc]
         ELSE IF turn_is_kept(turn)
              THEN IF turn.t = "dict"
                   THEN history_loop(items, i + 1,
                            Append(acc, Content(DictGet(turn, "role"),
                                                DictGet(turn, "text"))))
                   \* turn['role'] on a list or a str: TypeError
                   ELSE [raised |-> TRUE, parts |-> acc]
              ELSE history_loop(items, i + 1, acc)

\* "if history and history != 'null'" (main.py:288); an absent history is
\* None, [present |-> FALSE]
history_is_given_ignoring_sentinel(history) ==
    /\ history.present
    /\ history.text # << >>
history_is_given(history) ==
    /\ history.present
    /\ history.text # << >>
    /\ history.text # <<"null">>

\* main.py:286-301: the prior turns
prior_turns(history) ==
    IF history_is_given(history)
    THEN LET history_data == json_loads(history.text) IN
         IF ~history_data.ok
         THEN [raised |-> FALSE, parts |-> << >>]   \* except JSONDecodeError
         ELSE IF ~Iterable(history_data.val)
              THEN [raised |-> TRUE, parts |-> << >>]
              ELSE history_loop(IterItems(history_data.val), 1, << >>)
    ELSE [raised |-> FALSE, parts |-> << >>]

\* main.py:286-309: the conversation of the first provider call
full_conversation_parts(history, query) ==
    LET prior == prior_turns(history) IN
    IF prior.raised THEN prior
    ELSE [raised |-> FALSE,
          parts |-> Append(prior.parts, Content(PyStr("user"), PyStr(query)))]

(***************************************************************************)
(* Configuration and the domains the inputs are drawn from.                *)
(***************************************************************************)
API_TOKEN == "changeme"
USER_TIMEZONE == "America/Sao_Paulo"
\* max_results when list_calendar_events is called without it
DefaultMaxResults == 10
\* max_results of the /events endpoint
EventsMaxResults == 20

Req == {"r1", "r2"}
Tokens == {API_TOKEN, "wrong"}
Queries == {"q1", "q2"}
EventIds == {"e1", "e2"}
Summaries == {"s1", "s2"}
\* instants, as numbers
MaxTime == 3
Times == 1..MaxTime

\* an event of the calendar: summary (NoSummary when the resource has none)
\* and a start that is a dateTime or, for an all-day event, a date
NoSummary == "<none>"
NoEvent == [exists |-> FALSE]
Event(summary, startKey, start, end) ==
    [exists |-> TRUE, summary |-> summary,
     start |-> [key |-> startKey, value |-> start], end |-> end]

EmptyCalendar == [id \in EventIds |-> NoEvent]
InitialCalendars ==
    { EmptyCalendar,
      [EmptyCalendar EXCEPT !["e1"] = Event("s1", "dateTime", 2, 3)],
      [id \in EventIds |->
          IF id = "e1" THEN Event("s1", "dateTime", 2, 3)
                       ELSE Event(NoSummary, "date", 1, 2)] }

\* the histories a client may send: absent, or a text
NoHistory == [present |-> FALSE, text |-> << >>]
HistoryText(toks) == [present |-> TRUE, text |-> toks]

\* entries of a serialized history: records with or without role and text,
\* and values that are no records
Entry(role, text) ==
    PyDict((IF role = "absent" THEN << >> ELSE
               <<<<"role", IF role = "null" THEN PyNone ELSE PyStr(role)>>>>)
           \o (IF text = "absent" THEN << >> ELSE
               <<<<"text", IF text = "null" THEN PyNone ELSE PyStr(text)>>>>))
RecordEntries ==
    { Entry("user", "hi"), Entry("model", "hi"), Entry("absent", "hi"),
      Entry("user", "absent"), Entry("user", "null"), Entry("null", "hi") }
OtherEntries ==
    { PyInt(5), PyStr("hi"), PyList(<<PyStr("role"), PyStr("text")>>) }
HistoryEntries == RecordEntries \cup OtherEntries

\* every list of at most MaxTurns entries
HistoryLists ==
    { PyList(items) : items \in UNION { [1..n -> HistoryEntries] : n \in 0..MaxTurns } }
\* parsable texts whose top-level value is no list
NonListValues ==
    { PyInt(5), PyStr("hi"), Entry("user", "hi"),
      PyDict(<<<<"roletext", PyInt(5)>>>>) }
\* texts json.loads rejects
UnparsableTexts ==
    { <<"@">>, <<"[">>, <<"[", "5", ",", "]">>, <<"5", "5">>,
      <<"[", "{", "\"role\"", ":", "\"user\"">> }

AllHistories ==
    {NoHistory, HistoryText(<< >>), HistoryText(<<"null">>),
     HistoryText(<<" ", "null">>)}
    \cup { HistoryText(json_dumps(v)) : v \in HistoryLists \cup NonListValues }
    \cup { HistoryText(toks) : toks \in UnparsableTexts }

\* the histories of the orchestration runs
FewHistories ==
    { NoHistory, HistoryText(<<"null">>), HistoryText(<<"@">>),
      HistoryText(<<"5">>),
      HistoryText(json_dumps(PyList(<<Entry("user", "hi"), Entry("model", "hi")>>))) }

(***************************************************************************)
(* Tool calls of the provider and the tool registry (main.py:91-202, 312). *)
(***************************************************************************)
\* the argument mapping of a tool call: the keys it holds and their values
\* (the value of a key it does not hold is never read)
Args(keys, event_id, summary, start_datetime, end_datetime) ==
    [keys |-> keys, event_id |-> event_id, summary |-> summary,
     start_datetime |-> start_datetime, end_datetime |-> end_datetime,
     max_results |-> DefaultMaxResults, timezone |-> USER_TIMEZONE]
NoArgs == Args({}, "e1", "s1", 1, 1)
FunctionCall(name, args) == [name |-> name, args |-> args]

RegisteredTools ==
    {"list_calendar_events", "add_calendar_event",
     "delete_calendar_event", "modify_calendar_event"}
\* the parameters of each tool function and those without a default
Params(fn) ==
    CASE fn = "list_calendar_events" -> {"max_results", "start_datetime", "end_datetime"}
      [] fn = "add_calendar_event" -> {"summary", "start_datetime", "end_datetime", "timezone"}
      [] fn = "delete_calendar_event" -> {"event_id"}
      [] fn = "modify_calendar_event" ->
            {"event_id", "summary", "start_datetime", "end_datetime", "timezone"}
Required(fn) ==
    CASE fn = "list_calendar_events" -> {}
      [] fn = "add_calendar_event" -> {"summary", "start_datetime", "end_datetime"}
      [] fn = "delete_calendar_event" -> {"event_id"}
      [] fn = "modify_calendar_event" -> {"event_id"}
\* f(**args) binds: every required parameter is given and every key is a
\* parameter; otherwise Python raises TypeError at the call
BindsTo(fn, args) == Required(fn) \subseteq args.keys /\ args.keys \subseteq Params(fn)

\* the tool calls a provider response may carry
FunctionCalls ==
    { FunctionCall("list_calendar_events", NoArgs),
      FunctionCall("list_calendar_events", Args({"start_datetime", "end_datetime"}, "e1", "s1", 1, 3)),
      FunctionCall("add_calendar_event",
                   Args({"summary", "start_datetime", "end_datetime"}, "e1", "s2", 1, 2)),
      FunctionCall("add_calendar_event", Args({"summary", "start_datetime"}, "e1", "s2", 1, 2)),
      FunctionCall("delete_calendar_event", Args({"event_id"}, "e1", "s1", 1, 1)),
      FunctionCall("delete_calendar_event", NoArgs),
      FunctionCall("modify_calendar_event", Args({"event_id", "summary"}, "e1", "s2", 1, 1)),
      FunctionCall("modify_calendar_event",
                   Args({"event_id", "start_datetime", "end_datetime"}, "e1", "s1", 1, 2)),
      FunctionCall("modify_calendar_event", Args({"summary"}, "e1", "s2", 1, 1)),
      FunctionCall("send_email", NoArgs) }
\* a further call of the same response, which the loop never looks at
SecondCallOfResponse == FunctionCall("delete_calendar_event", Args({"event_id"}, "e1", "s1", 1, 1))

\* what client.models.generate_content may do: raise APIError, raise another
\* exception, or return a response (its text, its function calls)
AnswerTexts == {"a1", "a2"}
Raise(exc) == [kind |-> "raise", exc |-> exc, text |-> PyNone, function_calls |-> << >>]
Response(text, calls) == [kind |-> "response", exc |-> "", text |-> text, function_calls |-> calls]
NoResponse == Response(PyNone, << >>)
ProviderFailures == { Raise("APIError"), Raise("Exception") }
FirstOutcomes ==
    ProviderFailures
    \cup { Response(PyStr(a), << >>) : a \in AnswerTexts }
    \cup { Response(PyNone, <<fc>>) : fc \in FunctionCalls }
    \cup { Response(PyNone, <<fc, SecondCallOfResponse>>) : fc \in FunctionCalls }
SecondOutcomes ==
    ProviderFailures
    \cup { Response(PyStr(a), << >>) : a \in AnswerTexts }
    \cup { Response(PyStr("a1"), <<SecondCallOfResponse>>) }

\* response.candidates[0].content of a response with function calls
ModelContent(resp) ==
    [role |-> PyStr("model"),
     parts |-> [i \in 1..Len(resp.function_calls) |-> [function_call |-> resp.function_calls[i]]]]
\* Content(role="tool", parts=[Part.from_function_response(name, response)])
ToolContent(name, output) ==
    [role |-> PyStr("tool"),
     parts |-> <<[function_response |-> [name |-> name, response |-> output]]>>]

(***************************************************************************)
(* The calendar gateway (Google Calendar API) and the tool results.        *)
(***************************************************************************)
PyBool(b) == [t |-> "bool", b |-> b]
ErrorPayload(msg) == PyDict(<<<<"error", PyStr(msg)>>>>)

\* main.py:82-89
format_event(e, id) ==
    PyDict(<< <<"summary", PyStr(IF e.summary = NoSummary THEN "Sem titulo" ELSE e.summary)>>,
              <<"start", IF e.start.key \in {"dateTime", "date"}
                         THEN PyInt(e.start.value) ELSE PyNone>>,
              <<"event_id", PyStr(id)>> >>)

\* events().list(timeMin, timeMax, maxResults, singleEvents, orderBy=startTime):
\* the events that end after timeMin and start before timeMax, by start
\* time, at most maxResults of them; the order of events with equal start
\* is the gateway's choice.  hasMax = FALSE stands for timeMax = None.
Matching(cal, timeMin, hasMax, timeMax) ==
    { id \in EventIds : /\ cal[id].exists
                        /\ cal[id].end > timeMin
                        /\ (hasMax => cal[id].start.value < timeMax) }
Listings(cal, timeMin, hasMax, timeMax, maxResults) ==
    LET ids == Matching(cal, timeMin, hasMax, timeMax)
        n == Cardinality(ids)
        orders == { s \in [1..n -> ids] :
                      /\ \A i, j \in 1..n : i # j => s[i] # s[j]
                      /\ \A i, j \in 1..n :
                            i < j => cal[s[i]].start.value <= cal[s[j]].start.value }
    IN { SubSeq(s, 1, IF n < maxResults THEN n ELSE maxResults) : s \in orders }

\* main.py:38-62: None unless GOOGLE_CREDENTIALS holds credentials the
\* client library accepts
get_calendar_service(e) == e.GOOGLE_CREDENTIALS = "valid"
\* main.py:66-75
get_gemini_client(e) == e.GEMINI_API_KEY = "valid"
\* main.py:30-33: TRUE when the request passes
check_auth_skipped(token) == TRUE
check_auth(token) == token = API_TOKEN

\* entries of the trace of a request: a call of the provider (the
\* conversation submitted, what the provider did) and a call of the gateway
Provider(contents, outcome) == [ev |-> "provider", contents |-> contents, outcome |-> outcome]
Gateway(op, mutated) == [ev |-> "gateway", op |-> op, mutated |-> mutated]
ToolOutcome(output, cal, gateway) == [output |-> output, calendar |-> cal, gateway |-> gateway]
ServiceUnavailable == "Servico de calendario nao configurado ou inacessivel."

\* main.py:91-120: the possible results of one execution
list_calendar_events_outcomes(e, cal, a) ==
    IF ~get_calendar_service(e)
    THEN { ToolOutcome(PyList(<<ErrorPayload(ServiceUnavailable)>>), cal, << >>) }
    ELSE LET hasMax == "end_datetime" \in a.keys
             maxResults == IF "max_results" \in a.keys THEN a.max_results
                           ELSE DefaultMaxResults
             \* utcnow() is read when no start_datetime is given
             timeMins == IF "start_datetime" \in a.keys THEN {a.start_datetime} ELSE Times
             listings == UNION { Listings(cal, tm, hasMax, a.end_datetime, maxResults) :
                                    tm \in timeMins }
         IN { ToolOutcome(PyList(<<ErrorPayload("Erro ao listar eventos no Google Calendar")>>),
                          cal, <<Gateway("list", FALSE)>>) }
            \cup { ToolOutcome(PyList([i \in 1..Len(ids) |-> format_event(cal[ids[i]], ids[i])]),
                               cal, <<Gateway("list", FALSE)>>) : ids \in listings }

\* main.py:122-146
add_calendar_event_outcomes_retrying(e, cal, a) ==
    IF ~get_calendar_service(e)
    THEN { ToolOutcome(ErrorPayload(ServiceUnavailable), cal, << >>) }
    ELSE { ToolOutcome(PyDict(<< <<"created", PyBool(TRUE)>>,
                                 <<"event_id", PyStr(id2)>>,
                                 <<"summary", PyStr(a.summary)>> >>),
                       [i \in EventIds |->
                           IF i \in {id1, id2}
                           THEN Event(a.summary, "dateTime", a.start_datetime, a.end_datetime)
                           ELSE cal[i]],
                       <<Gateway("insert", TRUE), Gateway("insert", TRUE)>>) :
              id1 \in { i \in EventIds : ~cal[i].exists },
              id2 \in { i \in EventIds : ~cal[i].exists } }
add_calendar_event_outcomes(e, cal, a) ==
    IF ~get_calendar_service(e)
    THEN { ToolOutcome(ErrorPayload(ServiceUnavailable), cal, << >>) }
    ELSE { ToolOutcome(ErrorPayload("Erro ao criar evento"), cal, <<Gateway("insert", FALSE)>>) }
         \cup { ToolOutcome(PyDict(<< <<"created", PyBool(TRUE)>>,
                                      <<"event_id", PyStr(id)>>,
                                      <<"summary", PyStr(a.summary)>> >>),
                            [cal EXCEPT ![id] = Event(a.summary, "dateTime",
                                                      a.start_datetime, a.end_datetime)],
                            <<Gateway("insert", TRUE)>>) :
                  id \in { i \in EventIds : ~cal[i].exists } }

\* main.py:149-164
delete_calendar_event_outcomes(e, cal, a) ==
    IF ~get_calendar_service(e)
    THEN { ToolOutcome(ErrorPayload(ServiceUnavailable), cal, << >>) }
    ELSE { ToolOutcome(ErrorPayload("Erro ao excluir evento"), cal, <<Gateway("delete", FALSE)>>) }
         \cup (IF cal[a.event_id].exists
               THEN { ToolOutcome(PyDict(<< <<"deleted", PyBool(TRUE)>>,
                                            <<"event_id", PyStr(a.event_id)>>,
                                            <<"message", PyStr("Evento excluido com sucesso.")>> >>),
                                  [cal EXCEPT ![a.event_id] = NoEvent],
                                  <<Gateway("delete", TRUE)>>) }
               ELSE {})

\* main.py:186-194: the changes applied to the event that was read
apply_changes(existing, a) ==
    [existing EXCEPT
        !.summary = IF "summary" \in a.keys THEN a.summary ELSE @,
        !.start = IF "start_datetime" \in a.keys
                  THEN [key |-> "dateTime", value |-> a.start_datetime] ELSE @,
        !.end = IF "end_datetime" \in a.keys THEN a.end_datetime ELSE @]

VARIABLES
    env,             \* os.environ: GEMINI_API_KEY, GOOGLE_CREDENTIALS
    calendar,        \* the events of the calendar CALENDAR_ID
    pc,              \* where each request is
    request,         \* endpoint and parameters of each request
    conversation,    \* chat: full_conversation_parts
    first_response,  \* chat: response of the first provider call
    call,            \* the tool function being executed and its arguments
    existing_event,  \* modify_calendar_event: existing_event
    tool_output,     \* the value the tool function returned
    response,        \* the HTTP response of each request
    log,             \* what each request did, in order
    busy,            \* findSlot: the busy intervals given
    referenceInstant,\* findSlot: the instant the search starts at
    durationMinutes, \* findSlot: the length asked for
    freeFrom,        \* findSlot: the cursor
    scanned,         \* findSlot: how many intervals the loop has passed
    slot             \* findSlot: the slot returned, NoSlot before

finder_vars == <<busy, referenceInstant, durationMinutes, freeFrom, scanned, slot>>
vars == <<env, calendar, pc, request, conversation, first_response, call,
          existing_event, tool_output, response, log, finder_vars>>

NoRequest ==
    [endpoint |-> "", token |-> "", query |-> "", history |-> NoHistory,
     summary |-> "", start_datetime |-> 1, end_datetime |-> 1]
NoCall == [fn |-> "", args |-> NoArgs]
Pending == [status |-> 0, body |-> [detail |-> ""]]

\* the free-slot finder before it is called
NoSlot == [found |-> FALSE]
FinderUnused ==
    /\ busy = << >>
    /\ referenceInstant = 0
    /\ durationMinutes = 1
    /\ freeFrom = 0
    /\ scanned = 0
    /\ slot = NoSlot

Init ==
    /\ env \in [GEMINI_API_KEY : {"absent", "rejected", "valid"},
                GOOGLE_CREDENTIALS : {"absent", "not_json", "valid"}]
    /\ calendar \in InitialCalendars
    /\ FinderUnused
    /\ pc = [r \in Req |-> "idle"]
    /\ request = [r \in Req |-> NoRequest]
    /\ conversation = [r \in Req |-> << >>]
    /\ first_response = [r \in Req |-> NoResponse]
    /\ call = [r \in Req |-> NoCall]
    /\ existing_event = [r \in Req |-> NoEvent]
    /\ tool_output = [r \in Req |-> PyNone]
    /\ response = [r \in Req |-> Pending]
    /\ log = [r \in Req |-> << >>]

\* the request ends with this response
Finish(r, status, body) ==
    /\ response' = [response EXCEPT ![r] = [status |-> status, body |-> body]]
    /\ pc' = [pc EXCEPT ![r] = "done"]
HTTPException(r, status, detail) == Finish(r, status, [detail |-> detail])
Logged(r, events) == log' = [log EXCEPT ![r] = @ \o events]

\* a request arrives and is routed to its handler
Routed(r, req) ==
    /\ request' = [request EXCEPT ![r] = req]
    /\ pc' = [pc EXCEPT ![r] = req.endpoint]
    /\ UNCHANGED <<finder_vars, env, calendar, conversation, first_response, call,
                   existing_event, tool_output, response, log>>

\* GET /chat?query=..&token=..[&history=..], main.py:248-249
ReceiveChat(r, histories) ==
    /\ pc[r] = "idle"
    /\ \E token \in Tokens, query \in Queries, history \in histories :
          Routed(r, [NoRequest EXCEPT !.endpoint = "chat", !.token = token,
                                      !.query = query, !.history = history])

\* GET /events?token=.., main.py:222-223
ReceiveEvents(r) ==
    /\ pc[r] = "idle"
    /\ \E token \in Tokens :
          Routed(r, [NoRequest EXCEPT !.endpoint = "get_events", !.token = token])

\* POST /add_event?summary=..&start_datetime=..&end_datetime=..&token=..,
\* main.py:234-235
ReceiveAddEvent(r) ==
    /\ pc[r] = "idle"
    /\ \E token \in Tokens, summary \in Summaries :
          Routed(r, [NoRequest EXCEPT !.endpoint = "create_event", !.token = token,
                                      !.summary = summary, !.start_datetime = 1,
                                      !.end_datetime = 2])

(***************************************************************************)
(* GET /chat, main.py:248-399.                                             *)
(***************************************************************************)
\* main.py:250-253
chat_begin(r) ==
    /\ pc[r] = "chat"
    /\ IF ~check_auth(request[r].token)
       THEN HTTPException(r, 401, "Unauthorized")
       ELSE IF ~get_gemini_client(env)
       THEN HTTPException(r, 500, "Erro de Configuracao do Gemini. Verifique a chave API.")
       ELSE /\ pc' = [pc EXCEPT ![r] = "chat_history"]
            /\ UNCHANGED response
    /\ UNCHANGED <<finder_vars, env, calendar, request, conversation, first_response, call,
                   existing_event, tool_output, log>>

\* main.py:286: the list is a local of the call; as a list of the module it
\* would be the one list of every request
chat_history_shared(r) ==
    /\ pc[r] = "chat_history"
    /\ LET built == full_conversation_parts(request[r].history, request[r].query) IN
       IF built.raised
       THEN /\ Finish(r, 500, [detail |-> "Internal Server Error"])
            /\ UNCHANGED conversation
       ELSE /\ conversation' = [q \in Req |-> built.parts]
            /\ pc' = [pc EXCEPT ![r] = "chat_first_call"]
            /\ UNCHANGED response
    /\ Logged(r, <<[ev |-> "history"]>>)
    /\ UNCHANGED <<finder_vars, env, calendar, request, first_response, call,
                   existing_event, tool_output>>

\* main.py:257-309; an exception that leaves the handler here is answered
\* by the framework with status 500
chat_history(r) ==
    /\ pc[r] = "chat_history"
    /\ LET built == full_conversation_parts(request[r].history, request[r].query) IN
       IF built.raised
       THEN /\ Finish(r, 500, [detail |-> "Internal Server Error"])
            /\ UNCHANGED conversation
       ELSE /\ conversation' = [conversation EXCEPT ![r] = built.parts]
            /\ pc' = [pc EXCEPT ![r] = "chat_first_call"]
            /\ UNCHANGED response
    /\ Logged(r, <<[ev |-> "history"]>>)
    /\ UNCHANGED <<finder_vars, env, calendar, request, first_response, call,
                   existing_event, tool_output>>

\* main.py:389-399: what the handler answers when the try block raises
chat_except_retrying(r, exc) ==
    /\ pc' = [pc EXCEPT ![r] = "chat_first_call"]
    /\ UNCHANGED response
chat_except(r, exc) ==
    IF exc = "APIError"
    THEN HTTPException(r, 500, "Erro na API do Gemini")
    ELSE HTTPException(r, 500, "Erro interno do agente")

\* main.py:327: "if not response.function_calls"
answers_directly(resp) == resp.function_calls = << >>

\* main.py:329: the answer of a response without function calls
direct_answer_without_text(resp) == [answer |-> PyNone, function_used |-> PyNone]
direct_answer(resp) == [answer |-> resp.text, function_used |-> PyNone]

\* main.py:314-329: the first provider call
chat_first_call(r) ==
    /\ pc[r] = "chat_first_call"
    /\ \E out \in FirstOutcomes :
          /\ IF out.kind = "raise"
             THEN chat_except(r, out.exc) /\ UNCHANGED first_response
             ELSE IF answers_directly(out)
             THEN /\ Finish(r, 200, direct_answer(out))
                  /\ UNCHANGED first_response
             ELSE /\ first_response' = [first_response EXCEPT ![r] = out]
                  /\ pc' = [pc EXCEPT ![r] = "chat_dispatch"]
                  /\ UNCHANGED response
          /\ Logged(r, <<Provider(conversation[r], out)>>)
    /\ UNCHANGED <<finder_vars, env, calendar, request, conversation, call,
                   existing_event, tool_output>>

\* main.py:332: the tool call the loop acts on
tool_call_of(resp) == resp.function_calls[1]

\* main.py:352: the result when no tool function has the requested name
unknown_function_output_unnamed(function_name) == ErrorPayload("Funcao desconhecida")
unknown_function_output(function_name) ==
    ErrorPayload("Funcao desconhecida: " \o function_name)

\* main.py:332-352: the tool function is looked up and called
chat_dispatch(r) ==
    /\ pc[r] = "chat_dispatch"
    /\ LET tool_call == tool_call_of(first_response[r])
           function_name == tool_call.name
       IN IF function_name \in RegisteredTools
          THEN IF BindsTo(function_name, tool_call.args)
               THEN /\ call' = [call EXCEPT ![r] = [fn |-> function_name,
                                                    args |-> tool_call.args]]
                    /\ pc' = [pc EXCEPT ![r] = "tool"]
                    /\ UNCHANGED <<response, tool_output, log>>
               \* TypeError raised by the call, caught at main.py:391
               ELSE /\ chat_except(r, "TypeError")
                    /\ Logged(r, <<[ev |-> "call_raised", name |-> function_name]>>)
                    /\ UNCHANGED <<call, tool_output>>
          ELSE /\ tool_output' = [tool_output EXCEPT ![r] =
                                     unknown_function_output(function_name)]
               /\ pc' = [pc EXCEPT ![r] = "chat_second_call"]
               /\ UNCHANGED <<call, response, log>>
    /\ UNCHANGED <<finder_vars, env, calendar, request, conversation, first_response,
                   existing_event>>

\* main.py:357-374
history_for_second_call_without_request(r) ==
    conversation[r]
    \o <<ToolContent(tool_call_of(first_response[r]).name, tool_output[r])>>
history_for_second_call(r) ==
    conversation[r]
    \o <<ModelContent(first_response[r])>>
    \o <<ToolContent(tool_call_of(first_response[r]).name, tool_output[r])>>

\* main.py:354-387: the second provider call and the answer
chat_second_call_recursing(r) ==
    /\ pc[r] = "chat_second_call"
    /\ \E out \in SecondOutcomes :
          /\ IF out.kind = "raise"
             THEN chat_except(r, out.exc) /\ UNCHANGED first_response
             ELSE IF answers_directly(out)
             THEN /\ Finish(r, 200, [answer |-> out.text,
                                     function_used |-> PyStr(tool_call_of(first_response[r]).name)])
                  /\ UNCHANGED first_response
             ELSE /\ first_response' = [first_response EXCEPT ![r] = out]
                  /\ pc' = [pc EXCEPT ![r] = "chat_dispatch"]
                  /\ UNCHANGED response
          /\ Logged(r, <<Provider(history_for_second_call(r), out)>>)
    /\ UNCHANGED <<finder_vars, env, calendar, request, conversation, call,
                   existing_event, tool_output>>
chat_second_call_stale_text(r) ==
    /\ pc[r] = "chat_second_call"
    /\ \E out \in SecondOutcomes :
          /\ IF out.kind = "raise"
             THEN chat_except(r, out.exc)
             ELSE Finish(r, 200, [answer |-> first_response[r].text,
                                  function_used |-> PyStr(tool_call_of(first_response[r]).name)])
          /\ Logged(r, <<Provider(history_for_second_call(r), out)>>)
    /\ UNCHANGED <<finder_vars, env, calendar, request, conversation, first_response, call,
                   existing_event, tool_output>>
chat_second_call(r) ==
    /\ pc[r] = "chat_second_call"
    /\ \E out \in SecondOutcomes :
          /\ IF out.kind = "raise"
             THEN chat_except(r, out.exc)
             ELSE Finish(r, 200, [answer |-> out.text,
                                  function_used |-> PyStr(tool_call_of(first_response[r]).name)])
          /\ Logged(r, <<Provider(history_for_second_call(r), out)>>)
    /\ UNCHANGED <<finder_vars, env, calendar, request, conversation, first_response, call,
                   existing_event, tool_output>>

(***************************************************************************)
(* The tool functions, main.py:91-202.                                     *)
(***************************************************************************)
\* where the caller of the tool function continues
ReturnPc(r) ==
    CASE request[r].endpoint = "chat" -> "chat_second_call"
      [] request[r].endpoint = "get_events" -> "get_events_return"
      [] request[r].endpoint = "create_event" -> "create_event_return"

\* the function runs from entry to return
RunsTool(r, fn, out) ==
    /\ calendar' = out.calendar
    /\ tool_output' = [tool_output EXCEPT ![r] = out.output]
    /\ pc' = [pc EXCEPT ![r] = ReturnPc(r)]
    /\ Logged(r, <<[ev |-> "tool", name |-> fn]>> \o out.gateway
                 \o <<[ev |-> "tool_return", output |-> out.output]>>)
    /\ UNCHANGED <<finder_vars, env, request, conversation, first_response, call,
                   existing_event, response>>

list_calendar_events(r) ==
    /\ pc[r] = "tool" /\ call[r].fn = "list_calendar_events"
    /\ \E out \in list_calendar_events_outcomes(env, calendar, call[r].args) :
          RunsTool(r, "list_calendar_events", out)

add_calendar_event(r) ==
    /\ pc[r] = "tool" /\ call[r].fn = "add_calendar_event"
    /\ \E out \in add_calendar_event_outcomes(env, calendar, call[r].args) :
          RunsTool(r, "add_calendar_event", out)

delete_calendar_event(r) ==
    /\ pc[r] = "tool" /\ call[r].fn = "delete_calendar_event"
    /\ \E out \in delete_calendar_event_outcomes(env, calendar, call[r].args) :
          RunsTool(r, "delete_calendar_event", out)

\* main.py:178-194: the service is built, the event is read and changed
modify_calendar_event_get(r) ==
    /\ pc[r] = "tool" /\ call[r].fn = "modify_calendar_event"
    /\ LET a == call[r].args
           entered == <<[ev |-> "tool", name |-> "modify_calendar_event"]>>
           fails(msg, gateway) ==
               /\ tool_output' = [tool_output EXCEPT ![r] = ErrorPayload(msg)]
               /\ pc' = [pc EXCEPT ![r] = ReturnPc(r)]
               /\ Logged(r, entered \o gateway
                            \o <<[ev |-> "tool_return", output |-> ErrorPayload(msg)]>>)
               /\ UNCHANGED existing_event
       IN IF ~get_calendar_service(env)
          THEN fails(ServiceUnavailable, << >>)
          ELSE \/ fails("Erro ao modificar evento", <<Gateway("get", FALSE)>>)
               \/ /\ calendar[a.event_id].exists
                  /\ existing_event' = [existing_event EXCEPT ![r] =
                                           apply_changes(calendar[a.event_id], a)]
                  /\ pc' = [pc EXCEPT ![r] = "modify_update"]
                  /\ Logged(r, entered \o <<Gateway("get", FALSE)>>)
                  /\ UNCHANGED tool_output
    /\ UNCHANGED <<finder_vars, env, calendar, request, conversation, first_response, call,
                   response>>

\* main.py:196-202: the changed event is written back
modify_calendar_event_update(r) ==
    /\ pc[r] = "modify_update"
    /\ LET a == call[r].args
           returns(output, gateway) ==
               /\ tool_output' = [tool_output EXCEPT ![r] = output]
               /\ Logged(r, gateway \o <<[ev |-> "tool_return", output |-> output]>>)
       IN \/ /\ returns(ErrorPayload("Erro ao modificar evento"),
                        <<Gateway("update", FALSE)>>)
             /\ UNCHANGED calendar
          \/ /\ calendar[a.event_id].exists
             /\ calendar' = [calendar EXCEPT ![a.event_id] = existing_event[r]]
             /\ returns(PyDict(<< <<"modified", PyBool(TRUE)>>,
                                  <<"event_id", PyStr(a.event_id)>>,
                                  <<"new_summary",
                                    IF existing_event[r].summary = NoSummary
                                    THEN PyNone ELSE PyStr(existing_event[r].summary)>> >>),
                        <<Gateway("update", TRUE)>>)
    /\ pc' = [pc EXCEPT ![r] = ReturnPc(r)]
    /\ UNCHANGED <<finder_vars, env, request, conversation, first_response, call,
                   existing_event, response>>

(***************************************************************************)
(* GET /events and POST /add_event, main.py:222-243.                       *)
(***************************************************************************)
\* main.py:224-226
get_events(r) ==
    /\ pc[r] = "get_events"
    /\ IF ~check_auth(request[r].token)
       THEN HTTPException(r, 401, "Unauthorized") /\ UNCHANGED call
       ELSE /\ call' = [call EXCEPT ![r] =
                           [fn |-> "list_calendar_events",
                            args |-> [NoArgs EXCEPT !.keys = {"max_results"},
                                                    !.max_results = EventsMaxResults]]]
            /\ pc' = [pc EXCEPT ![r] = "tool"]
            /\ UNCHANGED response
    /\ UNCHANGED <<finder_vars, env, calendar, request, conversation, first_response,
                   existing_event, tool_output, log>>

\* main.py:228-231; result[0] of an empty list raises IndexError, which the
\* framework answers with status 500
get_events_return(r) ==
    /\ pc[r] = "get_events_return"
    /\ LET result == tool_output[r] IN
       IF Len(result.items) = 0
       THEN Finish(r, 500, [detail |-> "Internal Server Error"])
       ELSE IF DictHas(result.items[1], "error")
       THEN HTTPException(r, 500, DictGet(result.items[1], "error").s)
       ELSE Finish(r, 200, [events |-> result])
    /\ UNCHANGED <<finder_vars, env, calendar, request, conversation, first_response, call,
                   existing_event, tool_output, log>>

\* main.py:236-238
create_event(r) ==
    /\ pc[r] = "create_event"
    /\ IF ~check_auth(request[r].token)
       THEN HTTPException(r, 401, "Unauthorized") /\ UNCHANGED call
       ELSE /\ call' = [call EXCEPT ![r] =
                           [fn |-> "add_calendar_event",
                            args |-> Args({"summary", "start_datetime", "end_datetime"},
                                          "e1", request[r].summary,
                                          request[r].start_datetime,
                                          request[r].end_datetime)]]
            /\ pc' = [pc EXCEPT ![r] = "tool"]
            /\ UNCHANGED response
    /\ UNCHANGED <<finder_vars, env, calendar, request, conversation, first_response,
                   existing_event, tool_output, log>>

\* main.py:240-243
create_event_return(r) ==
    /\ pc[r] = "create_event_return"
    /\ LET result == tool_output[r] IN
       IF DictHas(result, "error")
       THEN HTTPException(r, 500, DictGet(result, "error").s)
       ELSE Finish(r, 200, result)
    /\ UNCHANGED <<finder_vars, env, calendar, request, conversation, first_response, call,
                   existing_event, tool_output, log>>

(***************************************************************************)
(* The free-slot finder, spec.md 4.3: findSlot(busy, referenceInstant,     *)
(* durationMinutes).  Instants and durations are counted in the same unit. *)
(***************************************************************************)
MaxInstant == 4
MaxBusy == 2
MaxDuration == 2
Instants == 0..MaxInstant
BusyInterval(start, end) == [start |-> start, end |-> end]
\* every interval with start <= end, and every sequence of at most MaxBusy
BusyIntervals == { iv \in [start : Instants, end : Instants] : iv.start <= iv.end }
BusySequences == UNION { [1..n -> BusyIntervals] : n \in 0..MaxBusy }
Slot(start, duration) == [found |-> TRUE, slotStart |-> start, slotEnd |-> start + duration]

\* one pass of the loop over the next interval: return when the gap before
\* it is long enough, otherwise move the cursor behind it
findSlot_scan_keeping_cursor ==
    /\ slot = NoSlot
    /\ scanned < Len(busy)
    /\ LET interval == busy[scanned + 1] IN
       IF interval.start - freeFrom >= durationMinutes
       THEN /\ slot' = Slot(freeFrom, durationMinutes)
            /\ UNCHANGED <<freeFrom, scanned>>
       ELSE /\ scanned' = scanned + 1
            /\ UNCHANGED <<freeFrom, slot>>
    /\ UNCHANGED <<busy, referenceInstant, durationMinutes>>
    /\ UNCHANGED <<env, calendar, pc, request, conversation, first_response, call,
                   existing_event, tool_output, response, log>>
findSlot_scan ==
    /\ slot = NoSlot
    /\ scanned < Len(busy)
    /\ LET interval == busy[scanned + 1] IN
       IF interval.start - freeFrom >= durationMinutes
       THEN /\ slot' = Slot(freeFrom, durationMinutes)
            /\ UNCHANGED <<freeFrom, scanned>>
       ELSE /\ freeFrom' = IF interval.end > freeFrom THEN interval.end ELSE freeFrom
            /\ scanned' = scanned + 1
            /\ UNCHANGED slot
    /\ UNCHANGED <<busy, referenceInstant, durationMinutes>>
    /\ UNCHANGED <<env, calendar, pc, request, conversation, first_response, call,
                   existing_event, tool_output, response, log>>

\* after the last interval
findSlot_return ==
    /\ slot = NoSlot
    /\ scanned = Len(busy)
    /\ slot' = Slot(freeFrom, durationMinutes)
    /\ UNCHANGED <<busy, referenceInstant, durationMinutes, freeFrom, scanned>>
    /\ UNCHANGED <<env, calendar, pc, request, conversation, first_response, call,
                   existing_event, tool_output, response, log>>

(***************************************************************************)
(* Specifications.                                                         *)
(***************************************************************************)
\* the steps of the tool functions
ToolStep(r) ==
    \/ list_calendar_events(r)
    \/ add_calendar_event(r)
    \/ delete_calendar_event(r)
    \/ modify_calendar_event_get(r)
    \/ modify_calendar_event_update(r)

\* one request, any endpoint, served from arrival to response
Next ==
    \/ ReceiveChat("r1", FewHistories)
    \/ ReceiveEvents("r1")
    \/ ReceiveAddEvent("r1")
    \/ chat_begin("r1")
    \/ chat_history("r1")
    \/ chat_first_call("r1")
    \/ chat_dispatch("r1")
    \/ ToolStep("r1")
    \/ chat_second_call("r1")
    \/ get_events("r1")
    \/ get_events_return("r1")
    \/ create_event("r1")
    \/ create_event_return("r1")

Spec == Init /\ [][Next]_vars

\* a chat request with any history of the enumerated ones, up to the first
\* provider call
ConfiguredInit ==
    /\ Init
    /\ env = [GEMINI_API_KEY |-> "valid", GOOGLE_CREDENTIALS |-> "valid"]
    /\ calendar = EmptyCalendar
NextHistory ==
    \/ ReceiveChat("r1", AllHistories)
    \/ chat_begin("r1")
    \/ chat_history("r1")
    \/ chat_first_call("r1")

SpecHistory == ConfiguredInit /\ [][NextHistory]_vars

\* two chat requests served concurrently: a step of one request is taken
\* between any two steps of the other
ConcurrentHistories ==
    { NoHistory, HistoryText(json_dumps(PyList(<<Entry("model", "hi")>>))) }
ConcurrentInit ==
    /\ Init
    /\ env = [GEMINI_API_KEY |-> "valid", GOOGLE_CREDENTIALS |-> "valid"]
    /\ calendar = [EmptyCalendar EXCEPT !["e1"] = Event("s1", "dateTime", 2, 3)]
\* the two requests differ in their query
QueryOf(r) == IF r = "r1" THEN "q1" ELSE "q2"
ReceiveConcurrentChat(r) ==
    /\ pc[r] = "idle"
    /\ \E history \in ConcurrentHistories :
          Routed(r, [NoRequest EXCEPT !.endpoint = "chat", !.token = API_TOKEN,
                                      !.query = QueryOf(r), !.history = history])
NextConcurrent ==
    \/ \E r \in Req : ReceiveConcurrentChat(r)
    \/ \E r \in Req : chat_begin(r)
    \/ \E r \in Req : chat_history(r)
    \/ \E r \in Req : chat_first_call(r)
    \/ \E r \in Req : chat_dispatch(r)
    \/ \E r \in Req : ToolStep(r)
    \/ \E r \in Req : chat_second_call(r)

SpecConcurrent == ConcurrentInit /\ [][NextConcurrent]_vars

\* findSlot called with any intervals, reference instant and duration of the
\* enumerated ones: the cursor starts at the reference instant
FindSlotInit ==
    /\ env = [GEMINI_API_KEY |-> "valid", GOOGLE_CREDENTIALS |-> "valid"]
    /\ calendar = EmptyCalendar
    /\ pc = [r \in Req |-> "idle"]
    /\ request = [r \in Req |-> NoRequest]
    /\ conversation = [r \in Req |-> << >>]
    /\ first_response = [r \in Req |-> NoResponse]
    /\ call = [r \in Req |-> NoCall]
    /\ existing_event = [r \in Req |-> NoEvent]
    /\ tool_output = [r \in Req |-> PyNone]
    /\ response = [r \in Req |-> Pending]
    /\ log = [r \in Req |-> << >>]
    /\ busy \in BusySequences
    /\ referenceInstant \in Instants
    /\ durationMinutes \in 1..MaxDuration
    /\ freeFrom = referenceInstant
    /\ scanned = 0
    /\ slot = NoSlot
NextFindSlot ==
    \/ findSlot_scan
    \/ findSlot_return

SpecFindSlot == FindSlotInit /\ [][NextFindSlot]_vars

(***************************************************************************)
(* What a request did, read from its trace.                                *)
(***************************************************************************)
Events(r, kind) == { i \in 1..Len(log[r]) : log[r][i].ev = kind }
ProviderCalls(r) == Events(r, "provider")
ToolRuns(r) == Events(r, "tool")
GatewayCalls(r) == Events(r, "gateway")
Mutations(r) == { i \in GatewayCalls(r) : log[r][i].mutated }
\* the first provider call and the later ones
FirstCall(r) == CHOOSE i \in ProviderCalls(r) : \A j \in ProviderCalls(r) : i <= j
LaterCalls(r) == { i \in ProviderCalls(r) : \E j \in ProviderCalls(r) : j < i }
FirstOutcome(r) == log[r][FirstCall(r)].outcome
\* the turn of the query
QueryTurn(r) == Content(PyStr("user"), PyStr(request[r].query))
\* a tool result that reports an error
IsErrorPayload(v) ==
    \/ v.t = "dict" /\ DictHas(v, "error")
    \/ v.t = "list" /\ Len(v.items) > 0 /\ DictHas(v.items[1], "error")
\* a later provider call whose last turn is a tool turn holding an error payload
ErrorFedBack(r) ==
    \E i \in LaterCalls(r) :
        LET contents == log[r][i].contents
            part == contents[Len(contents)].parts[1]
        IN /\ "function_response" \in DOMAIN part
           /\ IsErrorPayload(part.function_response.response)

(***************************************************************************)
(* C1: in any run of the chat orchestrator, whatever the provider does, at *)
(* most two provider calls are made and at most one tool function is       *)
(* executed.                                                               *)
(***************************************************************************)
C1_AtMostTwoProviderCallsOneTool ==
    \A r \in Req :
        /\ Cardinality(ProviderCalls(r)) <= 2
        /\ Cardinality(ToolRuns(r)) <= 1

\* a finished run whose first response held two tool calls and whose second
\* response asked for a tool again
C1_Witness ==
    \E r \in Req :
        /\ pc[r] = "done"
        /\ Cardinality(ProviderCalls(r)) = 2
        /\ Cardinality(ToolRuns(r)) = 1
        /\ Len(FirstOutcome(r).function_calls) = 2
        /\ \E i \in LaterCalls(r) : log[r][i].outcome.function_calls # << >>

(***************************************************************************)
(* C2: in a run that executes a tool, the tool execution, with every       *)
(* gateway call and mutation, has returned its result before the second    *)
(* provider call is issued; that call carries the result returned; the     *)
(* calendar is mutated at most once in the run and never after the second  *)
(* provider call.                                                          *)
(***************************************************************************)
C2_ToolFinishedBeforeSecondCall ==
    \A r \in Req :
        /\ Cardinality(Mutations(r)) <= 1
        /\ \A i \in LaterCalls(r) :
              /\ \A k \in ToolRuns(r) \cup GatewayCalls(r) \cup Events(r, "tool_return") :
                    k < i
              /\ ToolRuns(r) # {} =>
                    \E k \in Events(r, "tool_return") :
                        LET contents == log[r][i].contents IN
                        contents[Len(contents)].parts[1].function_response.response
                            = log[r][k].output

\* a finished run that created an event and then called the provider again
C2_Witness ==
    \E r \in Req :
        /\ pc[r] = "done"
        /\ Cardinality(ProviderCalls(r)) = 2
        /\ \E k \in Mutations(r) : log[r][k].op = "insert"
        /\ \E id \in EventIds : calendar[id].exists /\ calendar[id].summary = "s2"

(***************************************************************************)
(* C3: when the first provider response holds no tool request, the run     *)
(* returns that response's text with function_used None, after exactly one *)
(* provider call and without any gateway call.                             *)
(***************************************************************************)
C3_DirectAnswer ==
    \A r \in Req :
        (/\ ProviderCalls(r) # {}
         /\ FirstOutcome(r).kind = "response"
         /\ FirstOutcome(r).function_calls = << >>)
        => /\ pc[r] = "done"
           /\ response[r] = [status |-> 200,
                             body |-> [answer |-> FirstOutcome(r).text,
                                       function_used |-> PyNone]]
           /\ Cardinality(ProviderCalls(r)) = 1
           /\ ToolRuns(r) = {}
           /\ GatewayCalls(r) = {}

C3_Witness ==
    \E r \in Req :
        /\ ProviderCalls(r) # {}
        /\ FirstOutcome(r).kind = "response"
        /\ FirstOutcome(r).function_calls = << >>
        /\ response[r].status = 200
        /\ response[r].body.answer = PyStr("a2")

(***************************************************************************)
(* C4: when the first provider call fails, the run ends with a failure     *)
(* response: no tool function is executed, no gateway call is made, the    *)
(* provider is not called again and no answer text is returned.            *)
(***************************************************************************)
C4_FirstCallFailure ==
    \A r \in Req :
        (ProviderCalls(r) # {} /\ FirstOutcome(r).kind = "raise")
        => /\ pc[r] = "done"
           /\ response[r].status = 500
           /\ "answer" \notin DOMAIN response[r].body
           /\ Cardinality(ProviderCalls(r)) = 1
           /\ ToolRuns(r) = {}
           /\ GatewayCalls(r) = {}
           /\ Events(r, "call_raised") = {}

C4_Witness ==
    \E r \in Req :
        /\ ProviderCalls(r) # {}
        /\ FirstOutcome(r).kind = "raise"
        /\ FirstOutcome(r).exc = "APIError"
        /\ response[r] = [status |-> 500, body |-> [detail |-> "Erro na API do Gemini"]]

(***************************************************************************)
(* C5: whenever the tool execution requested by the provider fails         *)
(* (service unavailable, a gateway call raising, any other failure of the  *)
(* tool call), an error payload is produced instead of an exception, the   *)
(* second provider call is issued with that payload as the tool turn, and  *)
(* the run returns the provider's answer with the operation name.          *)
(***************************************************************************)
ToolExecutionFailed(r) ==
    \/ Events(r, "call_raised") # {}
    \/ \E k \in Events(r, "tool_return") : IsErrorPayload(log[r][k].output)

C5_ToolFailureIsFedBack ==
    \A r \in Req :
        (/\ pc[r] = "done"
         /\ request[r].endpoint = "chat"
         /\ ToolExecutionFailed(r))
        => /\ ErrorFedBack(r)
           /\ \A i \in LaterCalls(r) :
                 log[r][i].outcome.kind = "response"
                 => /\ response[r].status = 200
                    /\ response[r].body.answer = log[r][i].outcome.text
                    /\ response[r].body.function_used
                          = PyStr(FirstOutcome(r).function_calls[1].name)

(***************************************************************************)
(* C6: when the provider requests delete or modify without an event        *)
(* identifier, no event is deleted or modified, the tool execution yields  *)
(* an error payload that is fed back in the second provider call, and the  *)
(* run does not end in a failure response.                                 *)
(***************************************************************************)
RequestsWithoutIdentifier(r) ==
    /\ ProviderCalls(r) # {}
    /\ FirstOutcome(r).kind = "response"
    /\ FirstOutcome(r).function_calls # << >>
    /\ FirstOutcome(r).function_calls[1].name
          \in {"delete_calendar_event", "modify_calendar_event"}
    /\ "event_id" \notin FirstOutcome(r).function_calls[1].args.keys

C6_MissingIdentifierIsReported ==
    \A r \in Req :
        (pc[r] = "done" /\ RequestsWithoutIdentifier(r))
        => /\ Mutations(r) = {}
           /\ ErrorFedBack(r)
           /\ \A i \in LaterCalls(r) :
                 log[r][i].outcome.kind = "response" => response[r].status = 200

(***************************************************************************)
(* C7: for every malformed history text (unparsable, or parsable but not a *)
(* sequence of records) the normalization raises no error, the request is  *)
(* not failed by it, and the conversation is the one of an absent history: *)
(* the single user turn of the query.                                      *)
(***************************************************************************)
Malformed(history) ==
    /\ history.present
    /\ history.text \notin {<< >>, <<"null">>}
    /\ LET parsed == json_loads(history.text) IN
       \/ ~parsed.ok
       \/ parsed.val.t # "list"
       \/ \E i \in 1..Len(parsed.val.items) : parsed.val.items[i].t # "dict"

C7_MalformedHistoryDegrades ==
    \A r \in Req :
        (Events(r, "history") # {} /\ Malformed(request[r].history))
        => /\ conversation[r] = <<QueryTurn(r)>>
           /\ pc[r] = "done" => ProviderCalls(r) # {}

(***************************************************************************)
(* C8: when the history is absent, empty or the text 'null', the           *)
(* conversation sent on the first provider call has exactly one turn, of   *)
(* role user and holding the query.                                        *)
(***************************************************************************)
AbsentOrSentinel(history) ==
    \/ ~history.present
    \/ history.text = << >>
    \/ history.text = <<"null">>

C8_AbsentHistorySingleTurn ==
    \A r \in Req :
        (Events(r, "history") # {} /\ AbsentOrSentinel(request[r].history))
        => /\ conversation[r] = <<QueryTurn(r)>>
           /\ pc[r] = "done" => ProviderCalls(r) # {}
           /\ ProviderCalls(r) # {} => log[r][FirstCall(r)].contents = <<QueryTurn(r)>>

\* the first provider call of a request whose history is the text 'null'
C8_Witness ==
    \E r \in Req :
        /\ request[r].history = HistoryText(<<"null">>)
        /\ request[r].query = "q2"
        /\ ProviderCalls(r) # {}
        /\ Len(log[r][FirstCall(r)].contents) = 1

(***************************************************************************)
(* C9: for every well-formed history (a sequence of records) the           *)
(* conversation holds exactly the entries that carry both a role and       *)
(* textual content, in their order and unchanged, followed by the query as *)
(* the final user turn; the other entries are dropped without error.       *)
(***************************************************************************)
WellFormed(history) ==
    /\ history.present
    /\ history.text \notin {<< >>, <<"null">>}
    /\ LET parsed == json_loads(history.text) IN
       /\ parsed.ok
       /\ parsed.val.t = "list"
       /\ \A i \in 1..Len(parsed.val.items) : parsed.val.items[i].t = "dict"

CarriesRoleAndText(entry) ==
    /\ DictHas(entry, "role")
    /\ DictHas(entry, "text")
    /\ DictGet(entry, "text").t = "str"

RECURSIVE RetainedTurns(_, _)
RetainedTurns(items, i) ==
    IF i > Len(items) THEN << >>
    ELSE (IF CarriesRoleAndText(items[i])
          THEN <<Content(DictGet(items[i], "role"), DictGet(items[i], "text"))>>
          ELSE << >>)
         \o RetainedTurns(items, i + 1)

C9_WellFormedHistoryFiltered ==
    \A r \in Req :
        (Events(r, "history") # {} /\ WellFormed(request[r].history))
        => /\ conversation[r]
                = RetainedTurns(json_loads(request[r].history.text).val.items, 1)
                  \o <<QueryTurn(r)>>
           /\ pc[r] = "done" => ProviderCalls(r) # {}

(***************************************************************************)
(* C10: a request to /chat, /events or /add_event whose token differs from *)
(* the configured secret is rejected as unauthorized before any core logic *)
(* runs: no provider call, no gateway call, no history processing.         *)
(***************************************************************************)
C10_UnauthorizedRunsNothing ==
    \A r \in Req :
        (request[r].endpoint # "" /\ request[r].token # API_TOKEN)
        => /\ log[r] = << >>
           /\ conversation[r] = << >>
           /\ tool_output[r] = PyNone
           /\ pc[r] \in {request[r].endpoint, "done"}
           /\ pc[r] = "done" =>
                 response[r] = [status |-> 401, body |-> [detail |-> "Unauthorized"]]

C10_Witness ==
    \E r \in Req :
        /\ request[r].endpoint = "chat"
        /\ request[r].token = "wrong"
        /\ request[r].history # NoHistory
        /\ env.GEMINI_API_KEY = "valid"
        /\ response[r].status = 401
(***************************************************************************)
(* C11: whenever required configuration is absent (the model API key, or   *)
(* the calendar credentials needed by the requested operation), the        *)
(* authorized request fails with a not-configured condition with zero      *)
(* provider calls and zero gateway calls.                                  *)
(***************************************************************************)
NotConfiguredDetails ==
    { "Erro de Configuracao do Gemini. Verifique a chave API.", ServiceUnavailable }
RequiredConfigurationAbsent(r) ==
    \/ request[r].endpoint = "chat" /\ env.GEMINI_API_KEY = "absent"
    \/ /\ env.GOOGLE_CREDENTIALS = "absent"
       /\ \/ request[r].endpoint \in {"get_events", "create_event"}
          \/ ToolRuns(r) # {}

C11_NotConfiguredFailsFast ==
    \A r \in Req :
        (/\ pc[r] = "done"
         /\ request[r].token = API_TOKEN
         /\ RequiredConfigurationAbsent(r))
        => /\ response[r].status = 500
           /\ response[r].body.detail \in NotConfiguredDetails
           /\ ProviderCalls(r) = {}
           /\ GatewayCalls(r) = {}

(***************************************************************************)
(* C12: after a tool has been executed, the run returns the text of the    *)
(* second provider response with the name of the operation used, whether   *)
(* or not that response holds a tool request; such a request is never      *)
(* executed and never causes a third provider call.                        *)
(***************************************************************************)
SecondResponses(r) == { i \in LaterCalls(r) : log[r][i].outcome.kind = "response" }

C12_SecondAnswerReturned ==
    \A r \in Req : \A i \in SecondResponses(r) :
        ToolRuns(r) # {}
        => /\ pc[r] = "done"
           /\ response[r] =
                 [status |-> 200,
                  body |-> [answer |-> log[r][i].outcome.text,
                            function_used |-> PyStr(tool_call_of(FirstOutcome(r)).name)]]
           /\ Cardinality(ProviderCalls(r)) = 2
           /\ Cardinality(ToolRuns(r)) = 1
           /\ \A k \in ToolRuns(r) \cup GatewayCalls(r) : k < i

\* a listing was executed, the second response asked to delete e1, and the
\* run ended with e1 still in the calendar
C12_Witness ==
    \E r \in Req : \E i \in SecondResponses(r) :
        /\ pc[r] = "done"
        /\ \E k \in ToolRuns(r) : log[r][k].name = "list_calendar_events"
        /\ log[r][i].outcome.function_calls = <<SecondCallOfResponse>>
        /\ calendar["e1"].exists
        /\ response[r].body.answer = PyStr("a1")

(***************************************************************************)
(* C15: in a run that executes a tool, the conversation of the second      *)
(* provider call is the conversation of the first call followed by exactly *)
(* two turns: the provider's tool-request turn, then one tool turn holding *)
(* the result the executed operation returned, under the requested name;   *)
(* the first conversation is not changed by building the second.           *)
(***************************************************************************)
C15_SecondConversationExtendsFirst ==
    \A r \in Req : \A i \in LaterCalls(r) :
        ToolRuns(r) # {}
        => LET first == log[r][FirstCall(r)].contents
               name == tool_call_of(FirstOutcome(r)).name
           IN /\ \A t \in ToolRuns(r) : log[r][t].name = name
              /\ \E k \in Events(r, "tool_return") :
                    log[r][i].contents =
                        first \o <<ModelContent(FirstOutcome(r)),
                                   ToolContent(name, log[r][k].output)>>
              /\ conversation[r] = first

\* a run with a two-turn history that modified e1 and called the provider
\* again
C15_Witness ==
    \E r \in Req : \E i \in LaterCalls(r) :
        /\ \E t \in ToolRuns(r) : log[r][t].name = "modify_calendar_event"
        /\ \E k \in Mutations(r) : log[r][k].op = "update"
        /\ Len(log[r][FirstCall(r)].contents) = 3
        /\ Len(log[r][i].contents) = 5

(***************************************************************************)
(* C16: whenever a chat run ends with a failure response, no calendar      *)
(* mutation (create, delete, update) was performed during the run.         *)
(***************************************************************************)
C16_FailureMeansNoMutation ==
    \A r \in Req :
        (/\ request[r].endpoint = "chat"
         /\ pc[r] = "done"
         /\ response[r].status # 200)
        => Mutations(r) = {}

(***************************************************************************)
(* C18: an authorized /events request ends in a failure response if and    *)
(* only if the listing reported an error; in every other case, a calendar  *)
(* without upcoming events included, it returns {events: L}, L the list of *)
(* formatted events in the order the gateway returned them.                *)
(***************************************************************************)
C18_EventsFailsOnlyOnListingError ==
    \A r \in Req :
        (/\ request[r].endpoint = "get_events"
         /\ request[r].token = API_TOKEN
         /\ pc[r] = "done")
        => IF IsErrorPayload(tool_output[r])
           THEN response[r].status = 500
           ELSE response[r] = [status |-> 200, body |-> [events |-> tool_output[r]]]

(***************************************************************************)
(* C19: when the provider requests an operation that is none of the four   *)
(* registered tools, no tool function and no gateway call is executed, an  *)
(* error payload naming the unknown function is fed back as the tool turn, *)
(* the second provider call is made, and the response reports the          *)
(* requested name as function_used.                                        *)
(***************************************************************************)
RequestsUnregistered(r) ==
    /\ ProviderCalls(r) # {}
    /\ FirstOutcome(r).kind = "response"
    /\ FirstOutcome(r).function_calls # << >>
    /\ tool_call_of(FirstOutcome(r)).name
          \notin {"list_calendar_events", "add_calendar_event",
                  "delete_calendar_event", "modify_calendar_event"}

C19_UnregisteredOperation ==
    \A r \in Req :
        (RequestsUnregistered(r) /\ pc[r] = "done")
        => LET name == tool_call_of(FirstOutcome(r)).name IN
           /\ ToolRuns(r) = {}
           /\ GatewayCalls(r) = {}
           /\ Cardinality(ProviderCalls(r)) = 2
           /\ \A i \in LaterCalls(r) :
                 /\ log[r][i].contents[Len(log[r][i].contents)] =
                       ToolContent(name, ErrorPayload("Funcao desconhecida: " \o name))
                 /\ log[r][i].outcome.kind = "response" =>
                       /\ response[r].status = 200
                       /\ response[r].body.function_used = PyStr(name)

C19_Witness ==
    \E r \in Req :
        /\ RequestsUnregistered(r)
        /\ pc[r] = "done"
        /\ response[r].status = 200
        /\ response[r].body.function_used = PyStr("send_email")
(***************************************************************************)
(* C14: for every sequence of busy intervals sorted by start and not       *)
(* overlapping, every reference instant and every positive duration,       *)
(* findSlot returns a slot of exactly the duration asked for that starts   *)
(* at or after the reference instant and intersects none of the intervals. *)
(***************************************************************************)
SortedNonOverlapping(intervals) ==
    \A i, j \in 1..Len(intervals) :
        i < j => /\ intervals[i].start <= intervals[j].start
                 /\ intervals[i].end <= intervals[j].start
\* the half-open intervals [a, b) and [c, d) share an instant
Intersects(a, b, c, d) ==
    (IF a > c THEN a ELSE c) < (IF b < d THEN b ELSE d)

C14_FindSlotIsFree ==
    (slot # NoSlot /\ SortedNonOverlapping(busy))
    => /\ slot.slotEnd - slot.slotStart = durationMinutes
       /\ slot.slotStart >= referenceInstant
       /\ \A i \in 1..Len(busy) :
             ~Intersects(slot.slotStart, slot.slotEnd, busy[i].start, busy[i].end)

\* busy 09:00-10:00, reference 08:30, 60 minutes (in half hours) gives
\* 10:00-11:00
C14_Witness ==
    /\ busy = <<BusyInterval(1, 3)>>
    /\ referenceInstant = 0
    /\ durationMinutes = 2
    /\ slot = [found |-> TRUE, slotStart |-> 3, slotEnd |-> 5]
(***************************************************************************)
(* C13: for every interleaving of concurrently processed chat requests,    *)
(* the conversation a request submits on its first and on its second       *)
(* provider call is built only from its own history, query, tool-request   *)
(* turn and tool result, and a step of one request changes no state of     *)
(* the process that another request reads.                                 *)
(***************************************************************************)
OwnConversation(r) ==
    full_conversation_parts(request[r].history, request[r].query).parts
OwnToolResults(r) ==
    IF Events(r, "tool_return") # {}
    THEN { log[r][k].output : k \in Events(r, "tool_return") }
    ELSE { unknown_function_output(tool_call_of(FirstOutcome(r)).name) }
C13_OwnConversations ==
    \A r \in Req : \A i \in ProviderCalls(r) :
        IF i = FirstCall(r)
        THEN log[r][i].contents = OwnConversation(r)
        ELSE \E output \in OwnToolResults(r) :
                log[r][i].contents =
                    OwnConversation(r)
                    \o <<ModelContent(FirstOutcome(r)),
                         ToolContent(tool_call_of(FirstOutcome(r)).name, output)>>
\* the state of the process that request q reads
StateOf(q) ==
    <<pc[q], request[q], conversation[q], first_response[q], call[q],
      existing_event[q], tool_output[q], response[q], log[q]>>
C13_OneRequestPerStep ==
    /\ env' = env
    /\ \E r \in Req : \A q \in Req \ {r} : StateOf(q)' = StateOf(q)

C13_RequestsAreIsolated ==
    []C13_OwnConversations /\ [][C13_OneRequestPerStep]_vars

\* r1 has modified e1 and made its second provider call while r2, with
\* another history, was between the read and the write of its own
\* modification
C13_Witness ==
    /\ request["r1"].history # request["r2"].history
    /\ pc["r1"] = "done"
    /\ Cardinality(ProviderCalls("r1")) = 2
    /\ \E k \in Mutations("r1") : log["r1"][k].op = "update"
    /\ calendar["e1"].exists
    /\ calendar["e1"].summary = "s2"
    /\ pc["r2"] = "modify_update"
    /\ existing_event["r2"].exists
    /\ existing_event["r2"].summary = "s1"

(***************************************************************************)
(* C17: a successful modify_calendar_event changes, in the calendar, only  *)
(* the fields it was passed of the identified event; every field it was    *)
(* not passed keeps the value the calendar holds at the moment of the      *)
(* update, also when a modification of the same event by a concurrent      *)
(* request falls between its read and its write.                           *)
(***************************************************************************)
ModifySucceeds(r) ==
    /\ pc[r] = "modify_update"
    /\ pc'[r] # "modify_update"
    /\ DictHas(tool_output'[r], "modified")
C17_ModifyKeepsOtherFields ==
    [][\A r \in Req :
          ModifySucceeds(r) =>
             LET a == call[r].args
                 id == a.event_id
             IN /\ \A other \in EventIds \ {id} : calendar'[other] = calendar[other]
                /\ calendar'[id].exists
                /\ "summary" \notin a.keys => calendar'[id].summary = calendar[id].summary
                /\ "start_datetime" \notin a.keys => calendar'[id].start = calendar[id].start
                /\ "end_datetime" \notin a.keys => calendar'[id].end = calendar[id].end
                /\ "summary" \in a.keys => calendar'[id].summary = a.summary
                /\ "start_datetime" \in a.keys => calendar'[id].start.value = a.start_datetime
                /\ "end_datetime" \in a.keys => calendar'[id].end = a.end_datetime]_vars
=============================================================================
